---------------------------- MODULE Spec2Model ----------------------------
(***************************************************************************)
(* A model of the steam-auth crate: the Verifier (src/src/verifier.rs),    *)
(* which turns an OpenID callback query string into a re-verification      *)
(* request and a candidate identity, and finalizes the candidate against   *)
(* the provider's response body.                                           *)
(*                                                                         *)
(* Strings are sequences of atoms.  An atom is either one character        *)
(* (":", "&", "7", ...) or an unbroken run of letters that holds none of   *)
(* the delimiters the code splits on ("is_valid", "openid.mode", ...).     *)
(* Decimal digits and hexadecimal digits that follow a "%" are always      *)
(* single-character atoms.  A 64-bit identity is kept as its canonical     *)
(* decimal digit sequence, so that the bound 2^64 - 1 is exact.            *)
(***************************************************************************)
EXTENDS Integers, Sequences, FiniteSets, TLC

VARIABLES
    variant,    \* which entry point the caller uses: "manual", "sync", "async"
    inp,        \* the callback the provider produced (how qs was built)
    qs,         \* the callback query string handed to the crate
    pc,         \* the caller's position in the attempt
    req,        \* the http::Request returned by from_querystring, or NoReq
    vers,       \* the Verifier values that exist or existed
    nSent,      \* outbound network requests issued so far
    wire,       \* what the provider/network answers to the outbound request
    rcvd,       \* response body atoms read so far
    result,     \* what the entry point returned, or NoResult
    atts,       \* the attempts that run side by side, each with its own data
    rin,        \* the arguments given to Redirector::new (how they are built)
    redirector, \* the Redirector that Redirector::new returned, or NoRedirector
    rdResult,   \* Ok or the error Redirector::new returned, or NoResult
    served      \* what url() and create_response() returned, call by call

\* the state of the parts an attempt does not touch
others == <<atts, rin, redirector, rdResult, served>>

vars == <<variant, inp, qs, pc, req, vers, nSent, wire, rcvd, result, others>>

-----------------------------------------------------------------------------
(* Generic string helpers.                                                 *)

RECURSIVE Find(_, _, _)
\* index of the first atom equal to c at or after position i, 0 if none
Find(s, c, i) ==
    IF i > Len(s) THEN 0
    ELSE IF s[i] = c THEN i
    ELSE Find(s, c, i + 1)

RECURSIVE Split(_, _)
\* str::split(c): always at least one piece, empty pieces kept
Split(s, c) ==
    LET i == Find(s, c, 1) IN
    IF i = 0 THEN <<s>>
    ELSE <<SubSeq(s, 1, i - 1)>> \o Split(SubSeq(s, i + 1, Len(s)), c)

\* str::splitn(2, c): one piece when c is absent, else the text before the
\* first c and everything after it
SplitN2(s, c) ==
    LET i == Find(s, c, 1) IN
    IF i = 0 THEN <<s>>
    ELSE <<SubSeq(s, 1, i - 1), SubSeq(s, i + 1, Len(s))>>

RECURSIVE Concat(_)
Concat(ss) == IF ss = <<>> THEN <<>> ELSE Head(ss) \o Concat(Tail(ss))

RECURSIVE Join(_, _)
Join(ss, sep) ==
    IF ss = <<>> THEN <<>>
    ELSE IF Len(ss) = 1 THEN Head(ss)
    ELSE Head(ss) \o sep \o Join(Tail(ss), sep)

RECURSIVE SeqsUpTo(_, _)
\* all sequences over S of length at most n
SeqsUpTo(S, n) ==
    IF n = 0 THEN {<<>>}
    ELSE LET shorter == SeqsUpTo(S, n - 1) IN
         shorter \cup {Append(s, x) : s \in {t \in shorter : Len(t) = n - 1}, x \in S}

-----------------------------------------------------------------------------
(* Results and errors (the Error enum of the crate).                       *)

NoId == <<>>
NoResult == [tag |-> "None", id |-> NoId, err |-> "-"]
Ok(id) == [tag |-> "Ok", id |-> id, err |-> "-"]
Err(e) == [tag |-> "Err", id |-> NoId, err |-> e]

IsOk(r) == r.tag = "Ok"
IsErr(r) == r.tag = "Err"

-----------------------------------------------------------------------------
(* Verifier::verify_response.                                              *)

LF == "\n"
COLON == ":"
IS_VALID == <<"is_valid">>
TRUE_ == <<"true">>

\* a faulty variant of KeyValuePairs: str::split(':') as in the earlier revision,
\* which takes the text between the first and the second colon as the value
KeyValuePairsSplitAll(body) ==
    LET lines == Split(body, LF)
        pairs == [i \in 1..Len(lines) |-> Split(lines[i], COLON)]
    IN  {<<pairs[i][1], pairs[i][2]>> : i \in {j \in 1..Len(lines) : Len(pairs[j]) >= 2}}

\* split('\n').filter_map(|line| splitn(2, ':') -> Some((k, v))): the set of
\* (key, value) pairs of the lines that hold a colon
KeyValuePairs(body) ==
    LET lines == Split(body, LF)
        pairs == [i \in 1..Len(lines) |-> SplitN2(lines[i], COLON)]
    IN  {<<pairs[i][1], pairs[i][2]>> : i \in {j \in 1..Len(lines) : Len(pairs[j]) = 2}}

\* a faulty variant of IsValidBody: only the first pair is looked at
IsValidBodyFirst(body) ==
    \E p \in {SplitN2(Split(body, LF)[1], COLON)} :
        Len(p) = 2 /\ p[1] = IS_VALID /\ p[2] = TRUE_

\* .any(|(k, v)| k == "is_valid" && v == "true")
IsValidBody(body) ==
    \E kv \in KeyValuePairs(body) : kv[1] = IS_VALID /\ kv[2] = TRUE_

\* a faulty variant of verify_response: the identity is read from a claimed_id
\* line of the response body when there is one
verify_response_body_id(claimed_id, body) ==
    IF ~IsValidBody(body) THEN Err("AuthenticationFailed")
    ELSE IF \E kv \in KeyValuePairs(body) : kv[1] = <<"claimed_id">>
         THEN Ok((CHOOSE kv \in KeyValuePairs(body) : kv[1] = <<"claimed_id">>)[2])
    ELSE Ok(claimed_id)

\* a faulty variant of verify_response: the decision inverted
verify_response_inverted(claimed_id, body) ==
    IF IsValidBody(body) THEN Err("AuthenticationFailed") ELSE Ok(claimed_id)

verify_response(claimed_id, body) ==
    IF IsValidBody(body) THEN Ok(claimed_id) ELSE Err("AuthenticationFailed")

-----------------------------------------------------------------------------
(* application/x-www-form-urlencoded, as form_urlencoded and               *)
(* serde_urlencoded implement it.                                          *)

HexDigits == {"0", "1", "2", "3", "4", "5", "6", "7", "8", "9",
              "A", "B", "C", "D", "E", "F", "a", "b", "c", "d", "e", "f"}

Up(h) ==
    CASE h = "a" -> "A" [] h = "b" -> "B" [] h = "c" -> "C"
      [] h = "d" -> "D" [] h = "e" -> "E" [] h = "f" -> "F"
      [] OTHER -> h

\* the characters of the model that byte_serialize escapes, with their code
Escapes == {
    <<":", "3", "A">>, <<"/", "2", "F">>, <<"&", "2", "6">>, <<"=", "3", "D">>,
    <<"+", "2", "B">>, <<"%", "2", "5">>, <<",", "2", "C">>, <<"?", "3", "F">>,
    <<"#", "2", "3">>, <<" ", "2", "0">>}

REPLACEMENT == "U+FFFD"

\* the character a %XY escape stands for
ByteOf(h1, h2) ==
    IF \E e \in Escapes : e[2] = Up(h1) /\ e[3] = Up(h2)
    THEN (CHOOSE e \in Escapes : e[2] = Up(h1) /\ e[3] = Up(h2))[1]
    ELSE REPLACEMENT

RECURSIVE PercentDecode(_)
\* form_urlencoded decode: '+' is a space, %XY a byte, a stray '%' stays
PercentDecode(s) ==
    IF s = <<>> THEN <<>>
    ELSE IF s[1] = "+" THEN <<" ">> \o PercentDecode(Tail(s))
    ELSE IF s[1] = "%" /\ Len(s) >= 3 /\ s[2] \in HexDigits /\ s[3] \in HexDigits
         THEN <<ByteOf(s[2], s[3])>> \o PercentDecode(SubSeq(s, 4, Len(s)))
    ELSE <<s[1]>> \o PercentDecode(Tail(s))

\* a faulty variant of ByteSerialize: nothing is escaped
ByteSerializeRaw(s) == s

RECURSIVE ByteSerialize(_)
\* form_urlencoded::byte_serialize: a space becomes '+', every other
\* character outside [A-Za-z0-9*-._] becomes %XY
ByteSerialize(s) ==
    IF s = <<>> THEN <<>>
    ELSE LET c == s[1]
             rest == ByteSerialize(Tail(s))
         IN  IF c = " " THEN <<"+">> \o rest
             ELSE IF \E e \in Escapes : e[1] = c
                  THEN LET e == CHOOSE x \in Escapes : x[1] = c
                       IN  <<"%", e[2], e[3]>> \o rest
             ELSE <<c>> \o rest

\* the fields of SteamAuthResponse, in declaration order, and their names
\* on the wire
Fields == <<"ns", "mode", "op_endpoint", "claimed_id", "identity", "return_to",
            "response_nonce", "invalidate_handle", "assoc_handle", "signed", "sig">>

FieldSet == {Fields[i] : i \in 1..Len(Fields)}

\* the fields declared Option<String>
OptionalFields == {"identity", "invalidate_handle"}

Rename(f) ==
    CASE f = "ns" -> "openid.ns"
      [] f = "mode" -> "openid.mode"
      [] f = "op_endpoint" -> "openid.op_endpoint"
      [] f = "claimed_id" -> "openid.claimed_id"
      [] f = "identity" -> "openid.identity"
      [] f = "return_to" -> "openid.return_to"
      [] f = "response_nonce" -> "openid.response_nonce"
      [] f = "invalidate_handle" -> "openid.invalidate_handle"
      [] f = "assoc_handle" -> "openid.assoc_handle"
      [] f = "signed" -> "openid.signed"
      [] f = "sig" -> "openid.sig"
      [] f = "realm" -> "openid.realm"

None == [some |-> FALSE, v |-> <<>>]
Some(v) == [some |-> TRUE, v |-> v]

\* form_urlencoded::parse: the decoded (name, value) pairs of the non-empty
\* '&'-separated pieces; a piece without '=' has an empty value
ParsePairs(s) ==
    LET pieces == Split(s, "&")
        nonEmpty == SelectSeq(pieces, LAMBDA p : p # <<>>)
        kv(p) == LET sp == SplitN2(p, "=")
                 IN  <<PercentDecode(sp[1]),
                       IF Len(sp) = 2 THEN PercentDecode(sp[2]) ELSE <<>>>>
    IN  [i \in 1..Len(nonEmpty) |-> kv(nonEmpty[i])]

\* a faulty variant of FormOf: identity and invalidate_handle declared String, so
\* that their absence is an error too
FormOfAllRequired(pairs) ==
    LET at(f) == {i \in 1..Len(pairs) : pairs[i][1] = <<Rename(f)>>}
        dup == \E f \in FieldSet : Cardinality(at(f)) > 1
        missing == \E f \in FieldSet : at(f) = {}
    IN  IF dup \/ missing
        THEN [ok |-> FALSE, form |-> [f \in FieldSet |-> None]]
        ELSE [ok |-> TRUE,
              form |-> [f \in FieldSet |-> Some(pairs[CHOOSE i \in at(f) : TRUE][2])]]

\* the struct built from the decoded pairs (derive(Deserialize)): unknown
\* names are ignored, a repeated field or a missing required field is an
\* error, a missing Option field is None
FormOf(pairs) ==
    LET at(f) == {i \in 1..Len(pairs) : pairs[i][1] = <<Rename(f)>>}
        dup == \E f \in FieldSet : Cardinality(at(f)) > 1
        missing == \E f \in FieldSet \ OptionalFields : at(f) = {}
    IN  IF dup \/ missing
        THEN [ok |-> FALSE, form |-> [f \in FieldSet |-> None]]
        ELSE [ok |-> TRUE,
              form |-> [f \in FieldSet |->
                          IF at(f) = {} THEN None
                          ELSE Some(pairs[CHOOSE i \in at(f) : TRUE][2])]]

\* serde_urlencoded::from_str into SteamAuthResponse
Deserialize(s) == FormOf(ParsePairs(s))

\* serde_urlencoded::to_string of a SteamAuthResponse: the fields in
\* declaration order, None skipped, names and values byte-serialized
Serialize(form) ==
    LET present == SelectSeq(Fields, LAMBDA f : form[f].some)
        pair(f) == ByteSerialize(<<Rename(f)>>) \o <<"=">> \o ByteSerialize(form[f].v)
    IN  Join([i \in 1..Len(present) |-> pair(present[i])], <<"&">>)

-----------------------------------------------------------------------------
(* url::Url::parse and Url::path_segments, for the URLs of the model:      *)
(* scheme ":" then, for http and https, an authority and a path, and for   *)
(* any other scheme either a path that starts with "/" or an opaque        *)
(* remainder (a cannot-be-a-base URL).  Leading and trailing spaces are    *)
(* trimmed, "?" and "#" end the path, "." and ".." segments are resolved.  *)

SpecialSchemes == {"http", "https"}
\* "localhost:8080" has the scheme "localhost" for the parser
OtherSchemes == {"mailto", "localhost"}

RECURSIVE TrimLeft(_)
TrimLeft(s) == IF s # <<>> /\ s[1] = " " THEN TrimLeft(Tail(s)) ELSE s

RECURSIVE TrimRight(_)
TrimRight(s) ==
    IF s # <<>> /\ s[Len(s)] = " " THEN TrimRight(SubSeq(s, 1, Len(s) - 1)) ELSE s

RECURSIVE SkipSlashes(_)
SkipSlashes(s) == IF s # <<>> /\ s[1] = "/" THEN SkipSlashes(Tail(s)) ELSE s

\* the text before the first of the atoms in stops, and the text from it on
UpTo(s, stops) ==
    LET hits == {i \in 1..Len(s) : s[i] \in stops}
        i == IF hits = {} THEN Len(s) + 1
             ELSE CHOOSE k \in hits : \A j \in hits : k <= j
    IN  <<SubSeq(s, 1, i - 1), SubSeq(s, i, Len(s))>>

RECURSIVE RemoveDots(_, _)
\* the path state of the URL parser: "." is dropped and ".." pops a
\* segment; as the last segment either leaves an empty one
RemoveDots(segs, acc) ==
    IF segs = <<>> THEN acc
    ELSE LET sg == Head(segs)
             last == Len(segs) = 1
             popped == IF acc = <<>> THEN acc ELSE SubSeq(acc, 1, Len(acc) - 1)
         IN  IF sg = <<".", ".">>
             THEN RemoveDots(Tail(segs), IF last THEN Append(popped, <<>>) ELSE popped)
             ELSE IF sg = <<".">>
             THEN RemoveDots(Tail(segs), IF last THEN Append(acc, <<>>) ELSE acc)
             ELSE RemoveDots(Tail(segs), Append(acc, sg))

BadUrl == [ok |-> FALSE, cannot_be_a_base |-> FALSE, segments |-> <<>>]

\* the path of a URL as its segments: the text up to "?" or "#", which
\* starts with "/" or is empty
\* (an empty path is "/" for http and https; for another scheme it stays
\* empty and has no segments)
PathOf(s, special) ==
    LET path == UpTo(s, {"?", "#"})[1] IN
    [ok |-> TRUE, cannot_be_a_base |-> FALSE,
     segments |-> IF path = <<>>
                  THEN (IF special THEN <<<<>>>> ELSE <<>>)
                  ELSE RemoveDots(Split(Tail(path), "/"), <<>>)]

UrlParse(input) ==
    LET s == TrimRight(TrimLeft(input)) IN
    IF Len(s) < 2 \/ s[2] # ":" \/ s[1] \notin SpecialSchemes \cup OtherSchemes
    THEN BadUrl                                   \* relative URL without a base
    ELSE LET rest == SubSeq(s, 3, Len(s)) IN
         IF s[1] \in SpecialSchemes
         THEN LET auth == UpTo(SkipSlashes(rest), {"/", "?", "#"}) IN
              IF auth[1] = <<>> THEN BadUrl       \* empty host
              ELSE PathOf(auth[2], TRUE)
         ELSE IF rest # <<>> /\ rest[1] = "/"
              THEN IF Len(rest) >= 2 /\ rest[2] = "/"
                   THEN PathOf(UpTo(SubSeq(rest, 3, Len(rest)), {"/", "?", "#"})[2], FALSE)
                   ELSE PathOf(rest, FALSE)
              ELSE [ok |-> TRUE, cannot_be_a_base |-> TRUE, segments |-> <<>>]

-----------------------------------------------------------------------------
(* str::parse::<u64>.                                                      *)

Digits == <<"0", "1", "2", "3", "4", "5", "6", "7", "8", "9">>
DigitSet == {Digits[i] : i \in 1..10}
DigitVal(d) == (CHOOSE i \in 1..10 : Digits[i] = d) - 1

\* u64::MAX = 2^64 - 1 = 18446744073709551615
U64MaxDigits == <<"1", "8", "4", "4", "6", "7", "4", "4", "0", "7",
                  "3", "7", "0", "9", "5", "5", "1", "6", "1", "5">>

RECURSIVE StripZeros(_)
StripZeros(ds) == IF Len(ds) > 1 /\ ds[1] = "0" THEN StripZeros(Tail(ds)) ELSE ds

RECURSIVE LexLeq(_, _)
\* a <= b for digit sequences of equal length
LexLeq(a, b) ==
    IF a = <<>> THEN TRUE
    ELSE IF DigitVal(a[1]) < DigitVal(b[1]) THEN TRUE
    ELSE IF DigitVal(a[1]) > DigitVal(b[1]) THEN FALSE
    ELSE LexLeq(Tail(a), Tail(b))

\* a faulty variant of FitsU64: the length alone is compared, so 2^64 and above
\* pass when they have 20 digits
FitsU64ByLength(canon) == Len(canon) <= Len(U64MaxDigits)

FitsU64(canon) ==
    \/ Len(canon) < Len(U64MaxDigits)
    \/ Len(canon) = Len(U64MaxDigits) /\ LexLeq(canon, U64MaxDigits)

NoNumber == [ok |-> FALSE, value |-> NoId]

\* an optional '+', then one or more decimal digits, the value at most
\* u64::MAX (checked arithmetic: no wrap-around)
ParseU64(src) ==
    LET digits == IF src # <<>> /\ src[1] = "+" THEN Tail(src) ELSE src IN
    IF digits = <<>> \/ \E i \in 1..Len(digits) : digits[i] \notin DigitSet
    THEN NoNumber
    ELSE LET canon == StripZeros(digits) IN
         IF FitsU64(canon) THEN [ok |-> TRUE, value |-> canon] ELSE NoNumber

-----------------------------------------------------------------------------
(* Verifier::from_querystring.                                             *)

STEAM_URL == <<"https", ":", "/", "/", "steamcommunity.com", "/", "openid", "/", "login">>
CHECK_AUTHENTICATION == <<"check_authentication">>

NoReq == [method |-> "-", uri |-> <<>>, content_type |-> "-", body |-> <<>>]

\* a faulty variant of SetMode: the inbound mode is forwarded as it came
SetModeKept(form) == form

\* form.mode = "check_authentication".to_owned()
SetMode(form) == [form EXCEPT !["mode"] = Some(CHECK_AUTHENTICATION)]

\* a faulty variant of IdSegment: the first path segment instead of the last
IdSegmentFirst(segments) == segments[1]

\* segments.next_back()
IdSegment(segments) == segments[Len(segments)]

\* a faulty variant of ClaimedSource: the identity is read from openid.identity
ClaimedSourceIdentity(form) == form["identity"].v

\* &form.claimed_id
ClaimedSource(form) == form["claimed_id"].v

Failed(e) == [res |-> Err(e), req |-> NoReq, claimed_id |-> NoId]

\* steps 4 and 5: the form is serialized into the body of the POST request
Built(form, claimed) ==
    IF ~claimed.ok THEN Failed("ParseSteamId")
    ELSE [res |-> Ok(claimed.value),
          req |-> [method |-> "POST",
                   uri |-> STEAM_URL,
                   content_type |-> "application/x-www-form-urlencoded",
                   body |-> Serialize(form)],
          claimed_id |-> claimed.value]

\* step 3, second half: the last path segment as a u64
Identified(form, url) ==
    IF ~url.ok \/ url.cannot_be_a_base \/ url.segments = <<>>
    THEN Failed("ParseSteamId")
    ELSE Built(form, ParseU64(IdSegment(url.segments)))

\* steps 2 and 3: the mode is overwritten, claimed_id is parsed as a URL
Checked(de) ==
    IF ~de.ok THEN Failed("Deserialize")
    ELSE Identified(SetMode(de.form), UrlParse(ClaimedSource(de.form)))

from_querystring(s) == Checked(Deserialize(s))

-----------------------------------------------------------------------------
(* url::Url as a value: Url::parse, Url::join, Url::as_str and             *)
(* Url::set_query, for the URLs of the model.  The host holds the port.    *)

NoUrl == [ok |-> FALSE, scheme |-> "-", host |-> None, opaque |-> FALSE,
          path |-> <<>>, query |-> None, fragment |-> None]

HasScheme(s) == Len(s) >= 2 /\ s[2] = ":" /\ s[1] \in SpecialSchemes \cup OtherSchemes

\* the query and the fragment that follow a path: tl is empty or starts
\* with "?" or "#"
QueryOf(tl) ==
    IF tl # <<>> /\ tl[1] = "?" THEN Some(UpTo(Tail(tl), {"#"})[1]) ELSE None

FragmentOf(tl) ==
    LET i == Find(tl, "#", 1) IN
    IF i = 0 THEN None ELSE Some(SubSeq(tl, i + 1, Len(tl)))

\* a URL with a hierarchical path: segs are the segments before dot removal,
\* below the segments in under; an http or https URL has at least "/"
Hierarchical(scheme, host, under, segs, tl) ==
    [ok |-> TRUE, scheme |-> scheme, host |-> host, opaque |-> FALSE,
     path |-> IF segs = <<>> /\ under = <<>>
              THEN (IF scheme \in SpecialSchemes THEN <<<<>>>> ELSE <<>>)
              ELSE RemoveDots(segs, under),
     query |-> QueryOf(tl), fragment |-> FragmentOf(tl)]

\* the segments of a path text that is empty or starts with "/"
SegmentsOf(pathText) == IF pathText = <<>> THEN <<>> ELSE Split(Tail(pathText), "/")

\* what follows "//": host, path, query and fragment; http and https need
\* a host
AfterDoubleSlash(scheme, rest) ==
    LET auth == UpTo(rest, {"/", "?", "#"})
        pq == UpTo(auth[2], {"?", "#"})
    IN  IF auth[1] = <<>> /\ scheme \in SpecialSchemes
        THEN NoUrl                                    \* ParseError::EmptyHost
        ELSE Hierarchical(scheme, Some(auth[1]), <<>>, SegmentsOf(pq[1]), pq[2])

\* an input that starts with a scheme
Absolute(s) ==
    LET scheme == s[1]
        rest == SubSeq(s, 3, Len(s))
    IN  IF scheme \in SpecialSchemes
        THEN AfterDoubleSlash(scheme, SkipSlashes(rest))
        ELSE IF Len(rest) >= 2 /\ rest[1] = "/" /\ rest[2] = "/"
             THEN AfterDoubleSlash(scheme, SubSeq(rest, 3, Len(rest)))
        ELSE IF rest # <<>> /\ rest[1] = "/"
             THEN Hierarchical(scheme, None, <<>>,
                               SegmentsOf(UpTo(rest, {"?", "#"})[1]),
                               UpTo(rest, {"?", "#"})[2])
        ELSE [ok |-> TRUE, scheme |-> scheme, host |-> None, opaque |-> TRUE,
              path |-> <<UpTo(rest, {"?", "#"})[1]>>,
              query |-> QueryOf(UpTo(rest, {"?", "#"})[2]),
              fragment |-> FragmentOf(UpTo(rest, {"?", "#"})[2])]

\* Url::parse(input)
ParseUrl(input) ==
    LET s == TrimRight(TrimLeft(input)) IN
    IF HasScheme(s) THEN Absolute(s) ELSE NoUrl       \* RelativeUrlWithoutBase

Front(sq) == IF sq = <<>> THEN sq ELSE SubSeq(sq, 1, Len(sq) - 1)

\* a reference without a scheme, resolved against a base that can be one
Relative(base, r) ==
    IF r = <<>> THEN [base EXCEPT !.fragment = None]
    ELSE IF r[1] = "#" THEN [base EXCEPT !.fragment = Some(Tail(r))]
    ELSE IF r[1] = "?"
         THEN [base EXCEPT !.query = QueryOf(r), !.fragment = FragmentOf(r)]
    ELSE IF r[1] = "/" /\ Len(r) >= 2 /\ r[2] = "/"
         THEN AfterDoubleSlash(base.scheme,
                               IF base.scheme \in SpecialSchemes
                               THEN SkipSlashes(r) ELSE SubSeq(r, 3, Len(r)))
    ELSE IF r[1] = "/"
         THEN Hierarchical(base.scheme, base.host, <<>>,
                           SegmentsOf(UpTo(r, {"?", "#"})[1]), UpTo(r, {"?", "#"})[2])
    ELSE Hierarchical(base.scheme, base.host, Front(base.path),
                      Split(UpTo(r, {"?", "#"})[1], "/"), UpTo(r, {"?", "#"})[2])

\* a faulty variant of UrlJoin: a reference that cannot be resolved leaves the base
UrlJoinOrBase(base, input) ==
    LET r == TrimRight(TrimLeft(input))
        joined == IF HasScheme(r) THEN Absolute(r) ELSE Relative(base, r)
    IN  IF base.opaque \/ ~joined.ok THEN base ELSE joined

\* Url::join(&self, input)
UrlJoin(base, input) ==
    LET r == TrimRight(TrimLeft(input)) IN
    IF HasScheme(r) THEN Absolute(r)
    ELSE IF r # <<>> /\ r[1] = "#" THEN [base EXCEPT !.fragment = Some(Tail(r))]
    ELSE IF base.opaque THEN NoUrl            \* RelativeUrlWithCannotBeABaseBase
    ELSE Relative(base, r)

\* Url::as_str
UrlText(u) ==
    <<u.scheme, ":">>
    \o (IF u.host.some THEN <<"/", "/">> \o u.host.v ELSE <<>>)
    \o (IF u.opaque THEN u.path[1]
        ELSE IF u.path = <<>> THEN <<>> ELSE <<"/">> \o Join(u.path, <<"/">>))
    \o (IF u.query.some THEN <<"?">> \o u.query.v ELSE <<>>)
    \o (IF u.fragment.some THEN <<"#">> \o u.fragment.v ELSE <<>>)

RECURSIVE QueryEncode(_)
\* the query percent-encode set, for the characters of the model (the text
\* is encoded half by half)
QueryEncode(q) ==
    IF q = <<>> THEN <<>>
    ELSE IF Len(q) = 1
         THEN (CASE q[1] = " " -> <<"%", "2", "0">>
                 [] q[1] = "#" -> <<"%", "2", "3">>
                 [] OTHER -> q)
    ELSE QueryEncode(SubSeq(q, 1, Len(q) \div 2))
         \o QueryEncode(SubSeq(q, Len(q) \div 2 + 1, Len(q)))

\* url.set_query(Some(&qs))
SetQuery(u, q) == [u EXCEPT !.query = Some(QueryEncode(q))]

-----------------------------------------------------------------------------
(* Redirector::new (and get_login_url of the earlier revision).            *)

OPENID_NS == <<"http", ":", "/", "/", "specs.openid.net", "/", "auth", "/", "2.0">>
IDENTIFIER_SELECT == OPENID_NS \o <<"/", "identifier_select">>
CHECKID_SETUP == <<"checkid_setup">>

\* the fields of SteamAuthRequest, in declaration order
RequestFields == <<"ns", "identity", "claimed_id", "mode", "return_to", "realm">>

\* a faulty variant of SteamAuthRequest: realm and return_to change places
SteamAuthRequestSwapped(site_url, return_to_joined) ==
    [f \in {RequestFields[k] : k \in 1..Len(RequestFields)} |->
        CASE f = "ns" -> OPENID_NS
          [] f = "identity" -> IDENTIFIER_SELECT
          [] f = "claimed_id" -> IDENTIFIER_SELECT
          [] f = "mode" -> CHECKID_SETUP
          [] f = "realm" -> return_to_joined
          [] f = "return_to" -> site_url]

\* SteamAuthRequest::new(site_url, return_to_joined)
SteamAuthRequest(site_url, return_to_joined) ==
    [f \in {RequestFields[k] : k \in 1..Len(RequestFields)} |->
        CASE f = "ns" -> OPENID_NS
          [] f = "identity" -> IDENTIFIER_SELECT
          [] f = "claimed_id" -> IDENTIFIER_SELECT
          [] f = "mode" -> CHECKID_SETUP
          [] f = "realm" -> site_url
          [] f = "return_to" -> return_to_joined]

\* serde_urlencoded::to_string(&openid)
SerializeRequest(openid) ==
    Join([k \in 1..Len(RequestFields) |->
             ByteSerialize(<<Rename(RequestFields[k])>>) \o <<"=">>
             \o ByteSerialize(openid[RequestFields[k]])],
         <<"&">>)

NoRedirector == [built |-> FALSE, url |-> NoUrl]

\* the URL of the login endpoint with the request as its query
LoginUrl(site_url, joined) ==
    SetQuery(ParseUrl(STEAM_URL), SerializeRequest(SteamAuthRequest(site_url, UrlText(joined))))

Redirected(site_url, joined) ==
    IF ~joined.ok THEN [res |-> Err("BadUrl"), redirector |-> NoRedirector]
    ELSE [res |-> Ok(NoId),
          redirector |-> [built |-> TRUE, url |-> LoginUrl(site_url, joined)]]

Based(site_url, return_url, base) ==
    IF ~base.ok THEN [res |-> Err("BadUrl"), redirector |-> NoRedirector]
    ELSE Redirected(site_url, UrlJoin(base, return_url))

RedirectorNew(site_url, return_url) == Based(site_url, return_url, ParseUrl(site_url))

-----------------------------------------------------------------------------
(* The callbacks the identity provider (or an attacker) can produce.  An   *)
(* input names how each part of the query string is built; Render turns it *)
(* into the text that reaches the crate.                                   *)

ID17 == <<"7", "6", "5", "6", "1", "1", "9", "7", "9", "6", "0", "4", "3", "5", "5", "3", "0">>
OVER == <<"1", "8", "4", "4", "6", "7", "4", "4", "0", "7",
          "3", "7", "0", "9", "5", "5", "1", "6", "1", "6">>
OVER21 == <<"1", "0", "0", "0", "0", "0", "0", "0", "0", "0", "0",
            "0", "0", "0", "0", "0", "0", "0", "0", "0", "7">>

Pres == {"steam", "example", "root", "dots", "norel", "mailto", "hostonly"}
Segs == {"id17", "max", "zero7", "plus", "space", "over", "over21",
         "empty", "alpha", "mixed", "neg", "dotdot"}
Sufs == {"none", "query", "frag"}
Modes == {"id_res", "check", "weird", "empty"}
Opts == {"both", "neither", "identity", "invalidate"}
Shapes == {"plain", "extra", "dup", "garbage", "nothing", "badpct",
           "no_ns", "no_mode", "no_op_endpoint", "no_claimed_id", "no_return_to",
           "no_response_nonce", "no_assoc_handle", "no_signed", "no_sig"}
Encs == {"form", "pct20", "lax"}
Ords == {"std", "rev"}

Inputs == [pre : Pres, seg : Segs, suf : Sufs, mode : Modes, opt : Opts,
           shape : Shapes, enc : Encs, ord : Ords]

DefaultInput == [pre |-> "steam", seg |-> "id17", suf |-> "none", mode |-> "id_res",
                 opt |-> "both", shape |-> "plain", enc |-> "form", ord |-> "std"]

Dims == {"pre", "seg", "suf", "mode", "opt", "shape", "enc", "ord"}

DimValues(d) ==
    CASE d = "pre" -> Pres [] d = "seg" -> Segs [] d = "suf" -> Sufs
      [] d = "mode" -> Modes [] d = "opt" -> Opts [] d = "shape" -> Shapes
      [] d = "enc" -> Encs [] d = "ord" -> Ords

RECURSIVE Varied(_, _)
\* the inputs that differ from one of S in at most n parts
Varied(S, n) ==
    IF n = 0 THEN S
    ELSE Varied(S \cup UNION {{[i EXCEPT ![d] = v] : v \in DimValues(d)} :
                                  i \in S, d \in Dims}, n - 1)

PreText(p) ==
    CASE p = "steam" -> <<"https", ":", "/", "/", "steamcommunity.com", "/",
                          "openid", "/", "id", "/">>
      [] p = "example" -> <<"https", ":", "/", "/", "example.com", "/",
                            "openid", "/", "id", "/">>
      [] p = "root" -> <<"http", ":", "/", "/", "localhost", "/">>
      [] p = "dots" -> <<"https", ":", "/", "/", "steamcommunity.com", "/",
                         "openid", "/", "id", "/", "9", "/", ".", ".", "/">>
      [] p = "norel" -> <<"steamcommunity.com", "/", "openid", "/", "id", "/">>
      [] p = "mailto" -> <<"mailto", ":">>
      [] p = "hostonly" -> <<"https", ":", "/", "/">>

SegText(g) ==
    CASE g = "id17" -> ID17
      [] g = "max" -> U64MaxDigits
      [] g = "zero7" -> <<"0", "0", "7">>
      [] g = "plus" -> <<"+", "7">>
      [] g = "space" -> <<"7", " ">>
      [] g = "over" -> OVER
      [] g = "over21" -> OVER21
      [] g = "empty" -> <<>>
      [] g = "alpha" -> <<"xyz">>
      [] g = "mixed" -> <<"7", "xyz">>
      [] g = "neg" -> <<"-", "7">>
      [] g = "dotdot" -> <<".", ".">>

SufText(u) ==
    CASE u = "none" -> <<>>
      [] u = "query" -> <<"?", "q", "=", "/", "5">>
      [] u = "frag" -> <<"#", "/", "5">>

ModeText(m) ==
    CASE m = "id_res" -> <<"id_res">>
      [] m = "check" -> CHECK_AUTHENTICATION
      [] m = "weird" -> <<"x", "&", "y", "=", "z", "%", "+", " ", "q">>
      [] m = "empty" -> <<>>

\* the value the provider gives each field
FieldText(i, f) ==
    CASE f = "ns" -> <<"http", ":", "/", "/", "specs.openid.net", "/", "auth", "/", "2.0">>
      [] f = "mode" -> ModeText(i.mode)
      [] f = "op_endpoint" -> STEAM_URL
      [] f = "claimed_id" -> PreText(i.pre) \o SegText(i.seg) \o SufText(i.suf)
      [] f = "identity" -> <<"https", ":", "/", "/", "steamcommunity.com", "/",
                             "openid", "/", "id", "/", "4", "2">>
      [] f = "return_to" -> <<"http", ":", "/", "/", "localhost", ":", "8080", "/",
                              "callback", "?", "next", "=", "%", "2", "F">>
      [] f = "response_nonce" -> <<"2019-06-15T00", ":", "36", ":", "00Z7nVIS5lDAcZe",
                                   "/", "T0gT4", "+", "QNQyexyA", "=">>
      [] f = "invalidate_handle" -> <<>>
      [] f = "assoc_handle" -> <<"1", "2", "3", "4", "5", "6", "7", "8", "9", "0">>
      [] f = "signed" -> <<"signed", ",", "op_endpoint", ",", "claimed_id">>
      [] f = "sig" -> <<"BK0zC", "/", "/", "KzERs7N", "+", "NlDO0aL06", "+", "BA", "=">>

RECURSIVE EncodeAs(_, _)
\* the provider's own percent-encoding of a value: "form" as
\* byte_serialize, "pct20" with %20 for a space and lower-case hex, "lax"
\* escaping only what would change the meaning of the query string
EncodeAs(style, v) ==
    IF v = <<>> THEN <<>>
    ELSE LET c == v[1]
             rest == EncodeAs(style, Tail(v))
             esc == \E e \in Escapes : e[1] = c
             code == CHOOSE e \in Escapes : e[1] = c
             low(h) == CASE h = "A" -> "a" [] h = "B" -> "b" [] h = "C" -> "c"
                         [] h = "D" -> "d" [] h = "E" -> "e" [] h = "F" -> "f"
                         [] OTHER -> h
         IN  CASE style = "form" -> ByteSerialize(<<c>>) \o rest
               [] style = "pct20" ->
                    (IF esc THEN <<"%", low(code[2]), low(code[3])>> ELSE <<c>>) \o rest
               [] style = "lax" ->
                    (IF c \in {"&", "=", "+", "%", "#", " "}
                     THEN <<"%", code[2], code[3]>> ELSE <<c>>) \o rest

\* the shape of a callback that lacks field f
Dropped(f) ==
    CASE f = "ns" -> "no_ns"
      [] f = "mode" -> "no_mode"
      [] f = "op_endpoint" -> "no_op_endpoint"
      [] f = "claimed_id" -> "no_claimed_id"
      [] f = "return_to" -> "no_return_to"
      [] f = "response_nonce" -> "no_response_nonce"
      [] f = "assoc_handle" -> "no_assoc_handle"
      [] f = "signed" -> "no_signed"
      [] f = "sig" -> "no_sig"
      [] OTHER -> "-"

Reverse(sq) == [k \in 1..Len(sq) |-> sq[Len(sq) + 1 - k]]

\* the fields the provider sends, in the order it sends them
SentFields(i) ==
    LET optional == CASE i.opt = "both" -> OptionalFields
                      [] i.opt = "neither" -> {}
                      [] i.opt = "identity" -> {"identity"}
                      [] i.opt = "invalidate" -> {"invalidate_handle"}
        dropped == {f \in FieldSet : i.shape = Dropped(f)}
        kept == SelectSeq(Fields, LAMBDA f :
                    /\ f \notin dropped
                    /\ (f \in OptionalFields => f \in optional))
    IN  IF i.ord = "rev" THEN Reverse(kept) ELSE kept

Render(i) ==
    LET fs == SentFields(i)
        pair(f) == <<Rename(f)>> \o <<"=">> \o EncodeAs(i.enc, FieldText(i, f))
        body == Join([k \in 1..Len(fs) |-> pair(fs[k])], <<"&">>)
    IN  CASE i.shape = "garbage" -> <<"xyz", "&", "&", "=", "%">>
          [] i.shape = "nothing" -> <<>>
          [] i.shape = "extra" -> <<"openid.extra", "=", "1", "&">> \o body
                                     \o <<"&", "claimed_id", "=", "4", "2">>
          [] i.shape = "dup" -> body \o <<"&", "openid.mode", "=", "id_res">>
          [] i.shape = "badpct" -> body \o <<"&", "openid.junk", "=", "%", "z", "z",
                                              "&", "&", "=", "%", "2">>
          [] OTHER -> body

-----------------------------------------------------------------------------
(* The provider's answers.                                                 *)

BADBYTE == "0xFF"       \* a byte that is not valid UTF-8

MaxBodyToks == 5        \* atoms in a response body given to verify_response
MaxWireToks == 3        \* atoms in a response body on the network
MaxDeviations == 2      \* parts of a callback that differ from the usual one
MaxVerifiers == 2       \* Verifier values per attempt (the first and its clones)
ChunkLen == 2           \* atoms of the response body that arrive together

BodyTokens == {"is_valid", ":", "true", LF, "x"}

\* the bodies of the specification's examples
ExampleBodies == {
    <<"is_valid", ":", "true", LF, "ns", ":", "foo">>,
    <<"ns", ":", "http", ":", "/", "/", "specs.openid.net", "/", "auth", "/", "2.0", LF,
      "is_valid", ":", "true", LF>>,
    <<"is_valid", ":", "true", LF, "extra", ":", "a", ":", "b", ":", "c">>,
    <<"is_valid", ":", "true", ":", "x">>,
    <<"is_valid", ":", "false">>,
    <<"is_valid", ":", "false", LF>>,
    <<"ns", ":", "foo", LF, "is_valid", ":", "true", "\r", LF>>,
    <<"is_valid", ":", "true", LF, "claimed_id", ":", "4", "2">>,
    <<>>}

VRBodies == SeqsUpTo(BodyTokens, MaxBodyToks) \cup ExampleBodies

\* answers that hold a byte sequence that is not UTF-8
BadByteBodies == {
    <<"is_valid", ":", "true", LF, BADBYTE>>,
    <<BADBYTE, LF, "is_valid", ":", "true", LF>>,
    <<"is_valid", ":", "false", LF, BADBYTE>>}

WireBodies == SeqsUpTo(BodyTokens \cup {BADBYTE}, MaxWireToks) \cup ExampleBodies
              \cup BadByteBodies

NoWire == [send_fails |-> FALSE, read_fails |-> FALSE, body |-> <<>>, set |-> FALSE]

Wires == {[send_fails |-> TRUE, read_fails |-> FALSE, body |-> <<>>, set |-> TRUE]}
         \cup [send_fails : {FALSE}, read_fails : BOOLEAN, body : WireBodies, set : {TRUE}]

\* reqwest's Response::text(): invalid UTF-8 is replaced, never an error
Utf8Lossy(bytes) ==
    [k \in 1..Len(bytes) |-> IF bytes[k] = BADBYTE THEN REPLACEMENT ELSE bytes[k]]

\* std::str::from_utf8(&body) succeeds
ValidUtf8(bytes) == \A k \in 1..Len(bytes) : bytes[k] # BADBYTE

-----------------------------------------------------------------------------
(* make_verify_request and make_verify_request_async as functions of the   *)
(* query string and of what the network answers.                           *)

\* .send().map_err(Error::Reqwest).and_then(|response| response.text()
\* .map_err(Error::Reqwest)?; verifier.verify_response(text))
SyncAnswer(claimed_id, w) ==
    IF w.send_fails \/ w.read_fails THEN Err("Reqwest")
    ELSE verify_response(claimed_id, Utf8Lossy(w.body))

\* .send().map_err(Error::Reqwest).and_then(concat2).and_then(from_utf8
\* .map_err(|_| Error::AuthenticationFailed)?; verifier.verify_response(s))
AsyncAnswer(claimed_id, w) ==
    IF w.send_fails \/ w.read_fails THEN Err("Reqwest")
    ELSE IF ValidUtf8(w.body) THEN verify_response(claimed_id, w.body)
    ELSE Err("AuthenticationFailed")

SyncOutcome(r, w) == IF IsOk(r.res) THEN SyncAnswer(r.claimed_id, w) ELSE r.res

AsyncOutcome(r, w) == IF IsOk(r.res) THEN AsyncAnswer(r.claimed_id, w) ELSE r.res

make_verify_request(querystring, w) == SyncOutcome(from_querystring(querystring), w)

make_verify_request_async(querystring, w) == AsyncOutcome(from_querystring(querystring), w)

-----------------------------------------------------------------------------
(* The state machine of one verification attempt.                          *)

Variants == {"manual", "sync", "async"}

\* the callbacks of the end-to-end runs: three that carry an identity, and
\* one for each way from_querystring fails
E2EInputs ==
    {[DefaultInput EXCEPT !.seg = g] : g \in {"id17", "max", "zero7", "over", "alpha"}}
    \cup {[DefaultInput EXCEPT !.shape = h] : h \in {"garbage", "no_sig"}}
    \cup {[DefaultInput EXCEPT !.pre = "mailto"],
           [DefaultInput EXCEPT !.pre = "example", !.suf = "query"],
           [DefaultInput EXCEPT !.seg = "plus", !.opt = "neither", !.enc = "lax"]}
FQInputs == Varied({DefaultInput}, MaxDeviations)
VRInputs == {[DefaultInput EXCEPT !.seg = g] : g \in {"id17", "max", "zero7"}}

NewVerifier(id, owner, parent) ==
    [claimed_id |-> id, st |-> "Pending", body |-> <<>>, out |-> NoResult,
     owner |-> owner, parent |-> parent]

\* a faulty variant of Consumed: verify_response(&self, body) leaves the Verifier
\* usable
ConsumedBorrowed(v, body) ==
    [v EXCEPT !.body = body, !.out = verify_response(v.claimed_id, body)]

\* the Verifier after verify_response(self, body) consumed it
Consumed(v, body) ==
    LET out == verify_response(v.claimed_id, body) IN
    [v EXCEPT !.st = IF IsOk(out) THEN "Confirmed" ELSE "Rejected",
              !.body = body, !.out = out]

\* no attempts side by side and no Redirector asked for
OthersIdle ==
    /\ atts = <<>>
    /\ rin = [site |-> "local", path |-> "abs"]
    /\ redirector = NoRedirector
    /\ rdResult = NoResult
    /\ served = <<>>

\* the state before the crate is called
Start(vnt, i) ==
    /\ OthersIdle
    /\ variant = vnt
    /\ inp = i
    /\ qs = Render(i)
    /\ pc = "Unparsed"
    /\ req = NoReq
    /\ vers = <<>>
    /\ nSent = 0
    /\ wire = NoWire
    /\ rcvd = 0
    /\ result = NoResult

Init == \E vnt \in Variants, i \in E2EInputs : Start(vnt, i)

\* let (req, verifier) = Verifier::from_querystring(qs), called by the
\* application itself
FromQuerystring ==
    /\ variant = "manual"
    /\ pc = "Unparsed"
    /\ \E r \in {from_querystring(qs)} :
       IF IsOk(r.res)
       THEN /\ pc' = "Parsed"
            /\ req' = r.req
            /\ vers' = <<NewVerifier(r.claimed_id, "caller", 0)>>
            /\ UNCHANGED result
       ELSE /\ pc' = "Done"
            /\ result' = r.res
            /\ UNCHANGED <<req, vers>>
    /\ UNCHANGED <<variant, inp, qs, nSent, wire, rcvd>>
    /\ UNCHANGED others

\* verifier.clone() (derive(Clone)) on a Verifier the application holds
Clone(k) ==
    /\ k \in 1..Len(vers)
    /\ vers[k].st = "Pending"
    /\ vers[k].owner = "caller"
    /\ Len(vers) < MaxVerifiers
    /\ vers' = Append(vers, NewVerifier(vers[k].claimed_id, "caller", k))
    /\ UNCHANGED <<variant, inp, qs, pc, req, nSent, wire, rcvd, result>>
    /\ UNCHANGED others

\* verifier.verify_response(body), called by the application; self is moved
VerifyResponse(k, body) ==
    /\ k \in 1..Len(vers)
    /\ vers[k].st = "Pending"
    /\ vers[k].owner = "caller"
    /\ vers' = [vers EXCEPT ![k] = Consumed(vers[k], body)]
    /\ UNCHANGED <<variant, inp, qs, pc, req, nSent, wire, rcvd, result>>
    /\ UNCHANGED others

\* make_verify_request / make_verify_request_async up to the request:
\* from_querystring; an error ends the sync call, and makes the async one
\* return a future that is already failed
WrapperCall ==
    /\ variant \in {"sync", "async"}
    /\ pc = "Unparsed"
    /\ \E r \in {from_querystring(qs)} :
       IF IsOk(r.res)
       THEN /\ pc' = "Send"
            /\ req' = r.req
            /\ vers' = <<NewVerifier(r.claimed_id, "wrapper", 0)>>
            /\ UNCHANGED result
       ELSE /\ IF variant = "sync"
               THEN pc' = "Done" /\ result' = r.res
               ELSE pc' = "ErrReady" /\ UNCHANGED result
            /\ UNCHANGED <<req, vers>>
    /\ UNCHANGED <<variant, inp, qs, nSent, wire, rcvd>>
    /\ UNCHANGED others

\* Either::A(future::err(e)) polled
AsyncPollErr ==
    /\ variant = "async"
    /\ pc = "ErrReady"
    /\ pc' = "Done"
    /\ result' = from_querystring(qs).res
    /\ UNCHANGED <<variant, inp, qs, req, vers, nSent, wire, rcvd>>
    /\ UNCHANGED others

\* client.post(uri).header(..).body(body).send(): the request goes out and
\* the network decides what comes back
Send ==
    /\ variant \in {"sync", "async"}
    /\ pc = "Send"
    /\ nSent' = nSent + 1
    /\ \E w \in Wires : wire' = w
    /\ pc' = "Head"
    /\ UNCHANGED <<variant, inp, qs, req, vers, rcvd, result>>
    /\ UNCHANGED others

\* a faulty variant of Response: a failed send is tried again
ResponseRetry ==
    /\ pc = "Head"
    /\ IF wire.send_fails
       THEN pc' = "Send" /\ UNCHANGED result
       ELSE pc' = "Body" /\ UNCHANGED result
    /\ UNCHANGED <<variant, inp, qs, req, vers, nSent, wire, rcvd>>
    /\ UNCHANGED others

\* the outcome of send(): .map_err(Error::Reqwest), or the response
Response ==
    /\ pc = "Head"
    /\ IF wire.send_fails
       THEN pc' = "Done" /\ result' = Err("Reqwest")
       ELSE pc' = "Body" /\ UNCHANGED result
    /\ UNCHANGED <<variant, inp, qs, req, vers, nSent, wire, rcvd>>
    /\ UNCHANGED others

\* a part of the response body arrives
Chunk ==
    /\ pc = "Body"
    /\ rcvd < Len(wire.body)
    /\ rcvd' = IF rcvd + ChunkLen < Len(wire.body) THEN rcvd + ChunkLen ELSE Len(wire.body)
    /\ UNCHANGED <<variant, inp, qs, pc, req, vers, nSent, wire, result>>
    /\ UNCHANGED others

\* a faulty variant of Finalize: a transport failure while reading is taken for
\* an empty answer
FinalizeSwallow(bytes) ==
    LET v == vers[1] IN
    IF variant = "sync"
    THEN Consumed(v, IF wire.read_fails THEN <<>> ELSE Utf8Lossy(bytes))
    ELSE IF wire.read_fails \/ ~ValidUtf8(bytes)
         THEN [v EXCEPT !.out = Err("AuthenticationFailed")]
         ELSE Consumed(v, bytes)

\* the end of the body: response.text() (sync) or concat2() and
\* from_utf8 (async), then verifier.verify_response(text)
Finalize(bytes) ==
    LET v == vers[1] IN
    IF wire.read_fails
    THEN [v EXCEPT !.out = Err("Reqwest")]
    ELSE IF variant = "sync"
         THEN Consumed(v, Utf8Lossy(bytes))
         ELSE IF ValidUtf8(bytes)
              THEN Consumed(v, bytes)
              ELSE [v EXCEPT !.out = Err("AuthenticationFailed")]

\* a faulty variant of Finish: the body is parsed as soon as its first part is there
FinishEarly ==
    /\ pc = "Body"
    /\ rcvd > 0 \/ rcvd = Len(wire.body)
    /\ \E v \in {Finalize(SubSeq(wire.body, 1, rcvd))} :
       /\ result' = v.out
       /\ vers' = [vers EXCEPT ![1] = IF v.st = "Pending" THEN vers[1] ELSE v]
    /\ pc' = "Done"
    /\ UNCHANGED <<variant, inp, qs, req, nSent, wire, rcvd>>
    /\ UNCHANGED others

Finish ==
    /\ pc = "Body"
    /\ rcvd = Len(wire.body)
    /\ \E v \in {Finalize(SubSeq(wire.body, 1, rcvd))} :
       /\ result' = v.out
       /\ vers' = [vers EXCEPT ![1] = IF v.st = "Pending" THEN vers[1] ELSE v]
    /\ pc' = "Done"
    /\ UNCHANGED <<variant, inp, qs, req, nSent, wire, rcvd>>
    /\ UNCHANGED others

\* the future returned by make_verify_request_async is dropped
Cancel ==
    /\ variant = "async"
    /\ pc \in {"ErrReady", "Send", "Head", "Body"}
    /\ pc' = "Cancelled"
    /\ UNCHANGED <<variant, inp, qs, req, vers, nSent, wire, rcvd, result>>
    /\ UNCHANGED others

Next ==
    \/ FromQuerystring
    \/ \E k \in 1..MaxVerifiers : Clone(k)
    \/ \E k \in 1..MaxVerifiers, body \in ExampleBodies : VerifyResponse(k, body)
    \/ WrapperCall
    \/ AsyncPollErr
    \/ Send
    \/ Response
    \/ Chunk
    \/ Finish
    \/ Cancel

Spec == Init /\ [][Next]_vars

\* from_querystring alone, over more callbacks
InitFQ == \E i \in FQInputs : Start("manual", i)
NextFQ == FromQuerystring
SpecFQ == InitFQ /\ [][NextFQ]_vars

\* verify_response alone, over more bodies
InitVR ==
    \E i \in VRInputs :
      \E r \in {from_querystring(Render(i))} :
        /\ IsOk(r.res)
        /\ OthersIdle
        /\ variant = "manual"
        /\ inp = i
        /\ qs = Render(i)
        /\ pc = "Parsed"
        /\ req = r.req
        /\ vers = <<NewVerifier(r.claimed_id, "caller", 0)>>
        /\ nSent = 0
        /\ wire = NoWire
        /\ rcvd = 0
        /\ result = NoResult
NextVR ==
    /\ vers[1].st = "Pending"
    /\ \E body \in VRBodies : VerifyResponse(1, body)
SpecVR == InitVR /\ [][NextVR]_vars

-----------------------------------------------------------------------------
(* The crate-level path of the earlier revision (src/src/lib.rs): the      *)
(* application deserializes the callback itself and hands the form to      *)
(* verify_response or verify_response_async.                               *)

\* response.split('\n').map(|line| line.split(':') -> (next(), next()))
\* .filter_map(both present): the first two pieces of each line
LibKeyValuePairs(response) ==
    LET lines == Split(response, LF)
        pairs == [i \in 1..Len(lines) |-> Split(lines[i], COLON)]
    IN  {<<pairs[i][1], pairs[i][2]>> : i \in {j \in 1..Len(lines) : Len(pairs[j]) >= 2}}

\* .any(|(k, v)| k == "is_valid" && v == "true")
LibValid(response) ==
    \E kv \in LibKeyValuePairs(response) : kv[1] = IS_VALID /\ kv[2] = TRUE_

LibParsed(n) == IF n.ok THEN Ok(n.value) ELSE Err("ParseSteamId")

\* Url::parse(&claimed_id), path_segments(), next_back(), parse::<u64>()
LibSteamId(url) ==
    IF ~url.ok \/ url.cannot_be_a_base \/ url.segments = <<>>
    THEN Err("ParseSteamId")
    ELSE LibParsed(ParseU64(IdSegment(url.segments)))

parse_verify_response(claimed_id, response) ==
    IF ~LibValid(response) THEN Err("AuthenticationFailed")
    ELSE LibSteamId(UrlParse(claimed_id))

\* verify_response(client, form): post the form, read the text, parse
lib_verify_response(form, w) ==
    IF w.send_fails \/ w.read_fails THEN Err("Reqwest")
    ELSE parse_verify_response(form["claimed_id"].v, Utf8Lossy(w.body))

\* verify_response_async(client, form)
lib_verify_response_async(form, w) ==
    IF w.send_fails \/ w.read_fails THEN Err("Reqwest")
    ELSE IF ValidUtf8(w.body) THEN parse_verify_response(form["claimed_id"].v, w.body)
    ELSE Err("AuthenticationFailed")

LibVariants == {"lib_sync", "lib_async"}

\* the callbacks the application could deserialize
LibInputs ==
    {[DefaultInput EXCEPT !.seg = g] : g \in {"id17", "max", "zero7", "over", "alpha"}}
    \cup {[DefaultInput EXCEPT !.pre = "mailto"],
           [DefaultInput EXCEPT !.pre = "example", !.suf = "query"],
           [DefaultInput EXCEPT !.seg = "plus", !.opt = "neither", !.enc = "lax"]}

InitLib == \E vnt \in LibVariants, i \in LibInputs : Start(vnt, i)

\* steam_auth::verify_response(&client, form) with the form deserialized
\* from the callback
LibVerifyResponse ==
    /\ variant = "lib_sync"
    /\ pc = "Unparsed"
    /\ \E w \in Wires :
       /\ wire' = w
       /\ result' = lib_verify_response(Deserialize(qs).form, w)
    /\ nSent' = nSent + 1
    /\ pc' = "Done"
    /\ UNCHANGED <<variant, inp, qs, req, vers, rcvd>>
    /\ UNCHANGED others

\* steam_auth::verify_response_async(&client, form), polled to its end
LibVerifyResponseAsync ==
    /\ variant = "lib_async"
    /\ pc = "Unparsed"
    /\ \E w \in Wires :
       /\ wire' = w
       /\ result' = lib_verify_response_async(Deserialize(qs).form, w)
    /\ nSent' = nSent + 1
    /\ pc' = "Done"
    /\ UNCHANGED <<variant, inp, qs, req, vers, rcvd>>
    /\ UNCHANGED others

NextLib == LibVerifyResponse \/ LibVerifyResponseAsync

SpecLib == InitLib /\ [][NextLib]_vars

-----------------------------------------------------------------------------
(* The Redirector: the arguments an application can give to                *)
(* Redirector::new, and the calls on the Redirector it returns.            *)

MaxCalls == 3           \* calls of url() and create_response() on a Redirector

Sites == {"local", "app", "dir", "deep", "padded", "mailto", "bare",
          "none", "relative", "domain", "nohost"}
Paths == {"abs", "rel", "up", "query", "frag", "empty", "netpath", "full",
          "slashes", "badfull"}

RInputs == [site : Sites, path : Paths]

SiteText(k) ==
    CASE k = "local" -> <<"http", ":", "/", "/", "localhost", ":", "8080">>
      [] k = "app" -> <<"https", ":", "/", "/", "example.com", "/", "app">>
      [] k = "dir" -> <<"https", ":", "/", "/", "example.com", "/", "app", "/">>
      [] k = "deep" -> <<"https", ":", "/", "/", "example.com", "/", "a", "/", "b",
                         "?", "x", "=", "1", "&", "y", "=", "2", "#", "top">>
      [] k = "padded" -> <<" ", "http", ":", "/", "/", "localhost", ":", "8080">>
      [] k = "mailto" -> <<"mailto", ":", "admin">>
      [] k = "bare" -> <<"localhost", ":", "8080">>
      [] k = "none" -> <<>>
      [] k = "relative" -> <<"/", "app">>
      [] k = "domain" -> <<"example.com", "/", "app">>
      [] k = "nohost" -> <<"https", ":", "/", "/">>

PathText(k) ==
    CASE k = "abs" -> <<"/", "callback">>
      [] k = "rel" -> <<"callback">>
      [] k = "up" -> <<".", ".", "/", "cb">>
      [] k = "query" -> <<"?", "next", "=", "/", "home">>
      [] k = "frag" -> <<"#", "done">>
      [] k = "empty" -> <<>>
      [] k = "netpath" -> <<"/", "/", "evil.example", "/", "cb">>
      [] k = "full" -> <<"https", ":", "/", "/", "other.example", "/", "cb", "?", "a", "=", "1">>
      [] k = "slashes" -> <<"/", "/">>
      [] k = "badfull" -> <<"http", ":", "/", "/">>

\* no call of the single attempt yet
AttemptIdle ==
    /\ variant = "manual"
    /\ inp = DefaultInput
    /\ qs = Render(DefaultInput)
    /\ pc = "Unparsed"
    /\ req = NoReq
    /\ vers = <<>>
    /\ nSent = 0
    /\ wire = NoWire
    /\ rcvd = 0
    /\ result = NoResult

InitRD ==
    /\ AttemptIdle
    /\ atts = <<>>
    /\ rin \in RInputs
    /\ redirector = NoRedirector
    /\ rdResult = NoResult
    /\ served = <<>>

attempt == <<variant, inp, qs, pc, req, vers, nSent, wire, rcvd, result>>

\* Redirector::new(site_url, return_url)
New ==
    /\ rdResult = NoResult
    /\ \E r \in {RedirectorNew(SiteText(rin.site), PathText(rin.path))} :
       /\ rdResult' = r.res
       /\ redirector' = r.redirector
    /\ UNCHANGED <<attempt, atts, rin, served>>

\* redirector.url(): a reference to the stored URL
UrlCall ==
    /\ redirector.built
    /\ Len(served) < MaxCalls
    /\ served' = Append(served, [op |-> "url", res |-> Ok(NoId), status |-> 0,
                                 url |-> UrlText(redirector.url)])
    /\ UNCHANGED <<attempt, atts, rin, redirector, rdResult>>

\* a faulty variant of CreateResponse: the Redirector gives its URL away and
\* keeps the bare endpoint
CreateResponseTaking ==
    /\ redirector.built
    /\ Len(served) < MaxCalls
    /\ served' = Append(served, [op |-> "create_response", res |-> Ok(NoId), status |-> 302,
                                 url |-> UrlText(redirector.url)])
    /\ redirector' = [redirector EXCEPT !.url = ParseUrl(STEAM_URL)]
    /\ UNCHANGED <<attempt, atts, rin, rdResult>>

\* redirector.create_response(): status FOUND, the header Location with the
\* text of the stored URL, an empty body
CreateResponse ==
    /\ redirector.built
    /\ Len(served) < MaxCalls
    /\ served' = Append(served, [op |-> "create_response", res |-> Ok(NoId), status |-> 302,
                                 url |-> UrlText(redirector.url)])
    /\ UNCHANGED <<attempt, atts, rin, redirector, rdResult>>

NextRD == New \/ UrlCall \/ CreateResponse

SpecRD == InitRD /\ [][NextRD]_vars

-----------------------------------------------------------------------------
(* Several verification attempts side by side: each attempt is a task or   *)
(* thread of the application that calls from_querystring, sends the        *)
(* request, receives the answer and calls verify_response, and the steps   *)
(* of different attempts interleave in any order.                          *)

MaxAttempts == 2        \* attempts that run side by side

ParInputs == {[DefaultInput EXCEPT !.seg = g] : g \in {"id17", "max", "zero7", "alpha"}}

ParBodies == {
    <<"is_valid", ":", "true", LF>>,
    <<"is_valid", ":", "true", LF, "claimed_id", ":", "4", "2">>,
    <<"is_valid", ":", "false", LF>>,
    <<>>}

NoVerifier == [some |-> FALSE, claimed_id |-> NoId]

NewAttempt(i) ==
    [inp |-> i, qs |-> Render(i), pc |-> "Unparsed", req |-> NoReq, ver |-> NoVerifier,
     sent |-> FALSE, body |-> <<>>, result |-> NoResult]

InitPar ==
    /\ AttemptIdle
    /\ atts \in [1..MaxAttempts -> {NewAttempt(i) : i \in ParInputs}]
    /\ rin = [site |-> "local", path |-> "abs"]
    /\ redirector = NoRedirector
    /\ rdResult = NoResult
    /\ served = <<>>

\* a faulty variant of VerifierOf: one Verifier slot for the whole process, which
\* every from_querystring call overwrites
VerifierShared(a) ==
    atts[CHOOSE b \in 1..Len(atts) :
            /\ atts[b].ver.some
            /\ \A c \in 1..Len(atts) : atts[c].ver.some => c <= b].ver

\* the Verifier an attempt got from its own from_querystring call and owns
VerifierOf(a) == atts[a].ver

\* let (req, verifier) = Verifier::from_querystring(qs) in attempt a
ParFromQuerystring(a) ==
    /\ atts[a].pc = "Unparsed"
    /\ \E r \in {from_querystring(atts[a].qs)} :
       atts' = [atts EXCEPT ![a] =
                  IF IsOk(r.res)
                  THEN [@ EXCEPT !.pc = "Parsed", !.req = r.req,
                                 !.ver = [some |-> TRUE, claimed_id |-> r.claimed_id]]
                  ELSE [@ EXCEPT !.pc = "Done", !.result = r.res]]
    /\ UNCHANGED <<attempt, rin, redirector, rdResult, served>>

\* attempt a sends its request
ParSend(a) ==
    /\ atts[a].pc = "Parsed"
    /\ atts' = [atts EXCEPT ![a] = [@ EXCEPT !.pc = "Sent", !.sent = TRUE]]
    /\ UNCHANGED <<attempt, rin, redirector, rdResult, served>>

\* the answer to the request of attempt a arrives
ParArrive(a, body) ==
    /\ atts[a].pc = "Sent"
    /\ atts' = [atts EXCEPT ![a] = [@ EXCEPT !.pc = "Answered", !.body = body]]
    /\ UNCHANGED <<attempt, rin, redirector, rdResult, served>>

\* verifier.verify_response(body) in attempt a
ParVerifyResponse(a) ==
    /\ atts[a].pc = "Answered"
    /\ atts' = [atts EXCEPT ![a] =
                  [@ EXCEPT !.pc = "Done",
                            !.result = verify_response(VerifierOf(a).claimed_id, atts[a].body)]]
    /\ UNCHANGED <<attempt, rin, redirector, rdResult, served>>

NextPar ==
    \E a \in 1..MaxAttempts :
        \/ ParFromQuerystring(a)
        \/ ParSend(a)
        \/ \E body \in ParBodies : ParArrive(a, body)
        \/ ParVerifyResponse(a)

SpecPar == InitPar /\ [][NextPar]_vars

-----------------------------------------------------------------------------
(* What the claims speak of, stated from the input rather than from what   *)
(* the crate computed.                                                     *)

\* the body holds a line that is exactly is_valid:true
HasConfirmationLine(body) ==
    \E i \in 1..Len(body) :
        /\ i + 2 <= Len(body)
        /\ body[i] = "is_valid" /\ body[i + 1] = ":" /\ body[i + 2] = "true"
        /\ (i = 1 \/ body[i - 1] = LF)
        /\ (i + 2 = Len(body) \/ body[i + 3] = LF)

\* the callback holds every required field once
Deserializes(i) == i.shape \in {"plain", "extra", "badpct"}

\* the query string is not well-formed application/x-www-form-urlencoded
\* text of the callback: broken percent escapes, empty pairs, a pair with
\* no name, or a field given twice
Malformed(i) == i.shape \in {"garbage", "badpct", "dup"}

\* a required field is absent
LacksRequired(i) == i.shape \notin {"plain", "extra", "badpct", "dup"}

\* claimed_id is a URL with path segments whose last one is a u64
Identifies(i) ==
    /\ i.pre \in {"steam", "example", "root", "dots"}
    /\ \/ i.seg \in {"id17", "max", "zero7", "plus"}
       \/ i.seg = "space" /\ i.suf = "none"

\* the value of the last path segment of claimed_id
ClaimedValue(i) ==
    CASE i.seg = "id17" -> ID17
      [] i.seg = "max" -> U64MaxDigits
      [] i.seg \in {"zero7", "plus", "space"} -> <<"7">>
      [] OTHER -> NoId

Accepted(i) == Deserializes(i) /\ Identifies(i)

Finalized == {k \in 1..Len(vers) : vers[k].st \in {"Confirmed", "Rejected"}}

Wrapped == variant \in {"sync", "async"}

TransportFailed == wire.set /\ (wire.send_fails \/ wire.read_fails)

-----------------------------------------------------------------------------
(* The claims.                                                             *)

\* C1: make_verify_request returns Ok(id) only if from_querystring accepted
\* the query string, the one POST and the reading of its body succeeded and
\* the body holds a line that is exactly is_valid:true; every other finished
\* call returns an Err, which carries no identity.
C1_OkOnlyWhenConfirmed ==
    (variant = "sync" /\ pc = "Done") =>
        /\ result.tag \in {"Ok", "Err"}
        /\ IsOk(result) <=>
              /\ Accepted(inp)
              /\ nSent = 1
              /\ wire.set /\ ~wire.send_fails /\ ~wire.read_fails
              /\ HasConfirmationLine(wire.body)
        /\ IsErr(result) => result.id = NoId

C1_Witness ==
    /\ variant = "sync" /\ pc = "Done" /\ IsOk(result)
    /\ wire.body = <<"ns", ":", "http", ":", "/", "/", "specs.openid.net", "/", "auth", "/",
                     "2.0", LF, "is_valid", ":", "true", LF>>

\* C2: verify_response returns Ok(candidate) exactly when some line of the
\* body, split at its first colon only, has key is_valid and value true,
\* that is when some line is exactly is_valid:true; otherwise it returns
\* Err(AuthenticationFailed).
C2_ConfirmsIffLine ==
    \A k \in Finalized :
        IF HasConfirmationLine(vers[k].body)
        THEN vers[k].out = Ok(ClaimedValue(inp)) /\ vers[k].st = "Confirmed"
        ELSE vers[k].out = Err("AuthenticationFailed") /\ vers[k].st = "Rejected"

C2_Witness ==
    \E k \in Finalized :
        /\ vers[k].body = <<"is_valid", ":", "true", ":", "x">>
        /\ vers[k].st = "Rejected"

\* C3 (as claimed): the candidate identity of one successful
\* from_querystring call is finalized by verify_response at most once.
C3_FinalizedAtMostOnce == Cardinality(Finalized) <= 1

\* C4: an Ok(id) of verify_response or of make_verify_request carries the
\* value of the last path segment of the openid.claimed_id that was given
\* to from_querystring, never openid.identity or a number of the body.
C4_IdIsClaimedId ==
    /\ \A k \in 1..Len(vers) :
          /\ vers[k].claimed_id = ClaimedValue(inp)
          /\ IsOk(vers[k].out) => vers[k].out.id = ClaimedValue(inp)
    /\ IsOk(result) => Identifies(inp) /\ result.id = ClaimedValue(inp)

C4_Witness ==
    /\ inp.pre = "example" /\ inp.suf = "query"
    /\ IsOk(result) /\ result.id = ID17
    /\ \E k \in Finalized : vers[k].body = <<"is_valid", ":", "true", LF, "claimed_id", ":", "4", "2">>

\* C5: a query string that deserializes but whose claimed_id is no URL, has
\* no path segments, or ends in a segment that is no u64 (not a number,
\* empty, or above 2^64 - 1) makes from_querystring fail with ParseSteamId
\* and return neither a request nor a Verifier.
C5_ParseSteamId ==
    (pc # "Unparsed" /\ Deserializes(inp) /\ ~Identifies(inp)) =>
        /\ pc = "Done"
        /\ result = Err("ParseSteamId")
        /\ req = NoReq
        /\ vers = <<>>

C5_Witness ==
    /\ pc = "Done" /\ result = Err("ParseSteamId")
    /\ inp.seg = "over21" /\ inp.enc = "lax"

\* C6: the body of the request from_querystring returns decodes to the
\* inbound fields, with openid.mode replaced by check_authentication, every
\* other field as it came and absent optional fields absent.
C6_BodyIsCallbackWithMode ==
    (pc = "Parsed") =>
        /\ req.method = "POST" /\ req.uri = STEAM_URL
        /\ \E out \in {Deserialize(req.body)} :
              /\ out.ok
              /\ \A f \in FieldSet :
                    out.form[f] =
                        IF f = "mode" THEN Some(CHECK_AUTHENTICATION)
                        ELSE IF \E k \in 1..Len(SentFields(inp)) : SentFields(inp)[k] = f
                             THEN Some(FieldText(inp, f))
                             ELSE None

C6_Witness ==
    /\ pc = "Parsed"
    /\ inp.mode = "weird" /\ inp.opt = "neither"

\* C7: a Verifier exists only after a successful from_querystring, which
\* also returned the request; a failed from_querystring leaves neither;
\* a Verifier is PendingConfirmation until verify_response makes it
\* Confirmed or Rejected, an outcome exists only with one of these two, and
\* after that the Verifier never changes again.
C7_LifecycleState ==
    /\ vers # <<>> => Accepted(inp) /\ req # NoReq /\ pc # "Unparsed"
    /\ (pc # "Unparsed" /\ ~Accepted(inp)) => vers = <<>> /\ req = NoReq
    /\ \A k \in 1..Len(vers) :
          /\ vers[k].st \in {"Pending", "Confirmed", "Rejected"}
          /\ vers[k].st = "Pending" <=> vers[k].out = NoResult
          /\ vers[k].st = "Confirmed" <=> IsOk(vers[k].out)

C7_LifecycleStep ==
    /\ Len(vers') >= Len(vers)
    /\ \A k \in 1..Len(vers') :
          IF k > Len(vers)
          THEN vers'[k].st = "Pending"
          ELSE \/ vers'[k] = vers[k]
               \/ vers[k].st = "Pending" /\ vers'[k].st \in {"Confirmed", "Rejected"}

C7_Lifecycle == [](C7_LifecycleState) /\ [][C7_LifecycleStep]_vars

C7_Witness ==
    \E j, k \in Finalized : vers[j].st = "Confirmed" /\ vers[k].st = "Rejected"

\* C8: when the send or the reading of the response body fails,
\* make_verify_request and make_verify_request_async return the transport
\* error, never Ok(id) and never AuthenticationFailed.
C8_TransportErrorKept ==
    (Wrapped /\ pc = "Done" /\ TransportFailed) => result = Err("Reqwest")

C8_Witness ==
    /\ variant = "async" /\ pc = "Done" /\ wire.read_fails
    /\ HasConfirmationLine(wire.body)
    /\ result = Err("Reqwest")

\* C9 (as claimed): every finished attempt through make_verify_request or
\* make_verify_request_async has issued exactly one outbound request.
C9_ExactlyOneRequest == (Wrapped /\ pc = "Done") => nSent = 1

\* C9 (amended): an attempt issues at most one outbound request: none when
\* from_querystring fails, and exactly one once the send was reached, also
\* after a transport failure.
C9_AtMostOneRequest ==
    /\ nSent <= 1
    /\ (Wrapped /\ pc \in {"Head", "Body"}) => nSent = 1
    /\ (Wrapped /\ pc = "Done") => (nSent = 1 <=> Accepted(inp))
    /\ ~Accepted(inp) => nSent = 0

C9_Witness ==
    /\ Wrapped /\ pc = "Done" /\ wire.send_fails
    /\ nSent = 1 /\ result = Err("Reqwest")

\* C10: an asynchronous attempt that is cancelled has produced no identity,
\* and an identity is produced only when the whole response body has been
\* read and verify_response has parsed it.
C10_NoConfirmBeforeEnd ==
    variant = "async" =>
        /\ pc = "Cancelled" => result = NoResult /\ Finalized = {}
        /\ (IsOk(result) \/ Finalized # {}) =>
              /\ pc = "Done"
              /\ rcvd = Len(wire.body)
              /\ vers[1].body = wire.body
              /\ IsOk(result) <=> HasConfirmationLine(wire.body)

C10_Witness ==
    /\ variant = "async" /\ pc = "Cancelled"
    /\ rcvd > 0 /\ rcvd < Len(wire.body)
    /\ HasConfirmationLine(SubSeq(wire.body, 1, rcvd))

-----------------------------------------------------------------------------
(* What the Redirector claims speak of, stated from the arguments.         *)

HttpSites == {"local", "app", "dir", "deep", "padded"}
OpaqueSites == {"mailto", "bare"}

\* site_url is an absolute URL and return_url can be resolved against it
ValidPair(i) ==
    \/ i.site \in HttpSites /\ i.path \notin {"slashes", "badfull"}
    \/ i.site \in OpaqueSites /\ i.path \in {"frag", "full"}

\* scheme and authority of a site
Origin(k) ==
    IF k \in {"local", "padded"}
    THEN <<"http", ":", "/", "/", "localhost", ":", "8080">>
    ELSE <<"https", ":", "/", "/", "example.com">>

\* path, query and fragment of return_url resolved against a site
Resolved(site, path) ==
    CASE site \in {"local", "padded"} ->
           (CASE path \in {"abs", "rel"} -> <<"/", "callback">>
              [] path = "up" -> <<"/", "cb">>
              [] path = "query" -> <<"/", "?", "next", "=", "/", "home">>
              [] path = "frag" -> <<"/", "#", "done">>
              [] path = "empty" -> <<"/">>)
      [] site = "app" ->
           (CASE path \in {"abs", "rel"} -> <<"/", "callback">>
              [] path = "up" -> <<"/", "cb">>
              [] path = "query" -> <<"/", "app", "?", "next", "=", "/", "home">>
              [] path = "frag" -> <<"/", "app", "#", "done">>
              [] path = "empty" -> <<"/", "app">>)
      [] site = "dir" ->
           (CASE path = "abs" -> <<"/", "callback">>
              [] path = "rel" -> <<"/", "app", "/", "callback">>
              [] path = "up" -> <<"/", "cb">>
              [] path = "query" -> <<"/", "app", "/", "?", "next", "=", "/", "home">>
              [] path = "frag" -> <<"/", "app", "/", "#", "done">>
              [] path = "empty" -> <<"/", "app", "/">>)
      [] site = "deep" ->
           (CASE path = "abs" -> <<"/", "callback">>
              [] path = "rel" -> <<"/", "a", "/", "callback">>
              [] path = "up" -> <<"/", "cb">>
              [] path = "query" -> <<"/", "a", "/", "b", "?", "next", "=", "/", "home">>
              [] path = "frag" -> <<"/", "a", "/", "b", "?", "x", "=", "1", "&", "y", "=", "2",
                                    "#", "done">>
              [] path = "empty" -> <<"/", "a", "/", "b", "?", "x", "=", "1", "&", "y", "=", "2">>)

\* site_url joined with return_url, for a valid pair
ExpectedReturnTo(i) ==
    CASE i.path = "full" ->
           <<"https", ":", "/", "/", "other.example", "/", "cb", "?", "a", "=", "1">>
      [] i.path = "netpath" ->
           <<Origin(i.site)[1], ":", "/", "/", "evil.example", "/", "cb">>
      [] i.site = "mailto" -> <<"mailto", ":", "admin", "#", "done">>
      [] i.site = "bare" -> <<"localhost", ":", "8080", "#", "done">>
      [] OTHER -> Origin(i.site) \o Resolved(i.site, i.path)

\* the documented parameters of the redirect URL
ExpectedParams(i) == {
    <<<<"openid.ns">>,
      <<"http", ":", "/", "/", "specs.openid.net", "/", "auth", "/", "2.0">>>>,
    <<<<"openid.identity">>,
      <<"http", ":", "/", "/", "specs.openid.net", "/", "auth", "/", "2.0", "/",
        "identifier_select">>>>,
    <<<<"openid.claimed_id">>,
      <<"http", ":", "/", "/", "specs.openid.net", "/", "auth", "/", "2.0", "/",
        "identifier_select">>>>,
    <<<<"openid.mode">>, <<"checkid_setup">>>>,
    <<<<"openid.return_to">>, ExpectedReturnTo(i)>>,
    <<<<"openid.realm">>, SiteText(i.site)>>}

\* the (name, value) parameters a URL text carries after its "?"
ParamsOf(text) ==
    \E q \in {SubSeq(text, Find(text, "?", 1) + 1, Len(text))} :
      \E pairs \in {ParsePairs(q)} :
        /\ Find(text, "?", 1) > 0
        /\ Len(pairs) = Cardinality(ExpectedParams(rin))
        /\ {pairs[k] : k \in 1..Len(pairs)} = ExpectedParams(rin)

-----------------------------------------------------------------------------
(* The claims about the Redirector.                                        *)

\* C14: when site_url is not an absolute URL, or return_url cannot be
\* resolved against it, Redirector::new returns Err(BadUrl) and there is
\* no Redirector and no URL.
C14_InvalidIsBadUrl ==
    (rdResult # NoResult /\ ~ValidPair(rin)) =>
        /\ rdResult = Err("BadUrl")
        /\ redirector = NoRedirector
        /\ served = <<>>

C14_Witness ==
    /\ rin.site = "app" /\ rin.path = "slashes"
    /\ rdResult = Err("BadUrl")

\* C15: for a valid pair Redirector::new succeeds, and its URL is the login
\* endpoint followed by a query whose parameters are exactly openid.ns,
\* openid.identity, openid.claimed_id, openid.mode, openid.return_to and
\* openid.realm with the documented values: realm is site_url as given and
\* return_to is site_url joined with return_url.
C15_UrlIsLoginRequest ==
    (rdResult # NoResult /\ ValidPair(rin)) =>
        /\ IsOk(rdResult)
        /\ redirector.built
        /\ \E text \in {UrlText(redirector.url)} :
              /\ SubSeq(text, 1, Len(STEAM_URL) + 1) = STEAM_URL \o <<"?">>
              /\ \A k \in 1..Len(text) : text[k] # "#"
              /\ ParamsOf(text)

C15_Witness ==
    /\ rin.site = "deep" /\ rin.path = "frag"
    /\ IsOk(rdResult) /\ redirector.built

\* C16: every url() and every create_response() on a Redirector gives the
\* URL the first call gave, a create_response() with status 302, and no
\* step changes the URL the Redirector stores.
C16_UrlState ==
    /\ ~redirector.built => served = <<>>
    /\ \A k \in 1..Len(served) :
          /\ IsOk(served[k].res)
          /\ served[k].url = served[1].url
          /\ served[k].url = UrlText(redirector.url)
          /\ served[k].op = "create_response" => served[k].status = 302

C16_UrlStep == redirector.built => redirector' = redirector

C16_UrlNeverChanges == [](C16_UrlState) /\ [][C16_UrlStep]_vars

C16_Witness ==
    /\ Len(served) >= 3
    /\ served[1].op = "url" /\ served[2].op = "create_response" /\ served[3].op = "url"

-----------------------------------------------------------------------------
(* The remaining claims about the Verifier.                                *)

\* C13 (as claimed): a query string that is malformed or lacks a required
\* field makes from_querystring fail with Deserialize and return neither a
\* request nor a Verifier; a callback that only lacks optional fields does
\* not fail with Deserialize.
C13_MalformedOrIncomplete ==
    (pc # "Unparsed") =>
        /\ (Malformed(inp) \/ LacksRequired(inp)) =>
              result = Err("Deserialize") /\ req = NoReq /\ vers = <<>>
        /\ (inp.shape = "plain") => result # Err("Deserialize")

\* C13 (amended): from_querystring fails with Deserialize, returning neither
\* a request nor a Verifier, exactly when a required field is absent or a
\* field is given twice; broken percent escapes, empty pairs and unknown
\* names are decoded leniently and do not make it fail, and neither does
\* the absence of openid.identity or openid.invalidate_handle.
C13_IncompleteIsDeserialize ==
    (pc # "Unparsed") =>
        /\ (LacksRequired(inp) \/ inp.shape = "dup") <=> result = Err("Deserialize")
        /\ result = Err("Deserialize") => req = NoReq /\ vers = <<>>
        /\ (inp.shape = "badpct" /\ Identifies(inp)) => pc = "Parsed" /\ req # NoReq

C13_Witness ==
    /\ pc = "Done" /\ result = Err("Deserialize")
    /\ inp.shape = "no_sig" /\ inp.opt = "neither"

\* C11 (as claimed): for the same query string and the same behaviour of
\* the provider, make_verify_request and make_verify_request_async return
\* the same result: a finished call of one variant has returned what the
\* other variant returns.
C11_SameContract ==
    (Wrapped /\ pc = "Done") =>
        result = IF variant = "sync" THEN make_verify_request_async(qs, wire)
                 ELSE make_verify_request(qs, wire)

\* a finished call has returned what its own function returns
WrapperIsFunction ==
    (Wrapped /\ pc = "Done") =>
        result = IF variant = "sync" THEN make_verify_request(qs, wire)
                 ELSE make_verify_request_async(qs, wire)

\* C12: however the steps of the attempts interleave, each finished attempt
\* has the result that its own query string and the answer to its own
\* request give: it is confirmed only by a line is_valid:true in its own
\* answer, and the identity it returns is the one of its own claimed_id.
C12_AttemptsIndependent ==
    \A a \in 1..Len(atts) :
        /\ atts[a].ver.some => atts[a].ver.claimed_id = ClaimedValue(atts[a].inp)
        /\ atts[a].pc = "Done" =>
              atts[a].result =
                  IF ~Identifies(atts[a].inp) THEN Err("ParseSteamId")
                  ELSE IF HasConfirmationLine(atts[a].body)
                       THEN Ok(ClaimedValue(atts[a].inp))
                       ELSE Err("AuthenticationFailed")

C12_Witness ==
    /\ atts[1].pc = "Done" /\ atts[1].result = Err("AuthenticationFailed")
    /\ atts[1].inp.seg = "id17"
    /\ atts[2].pc = "Answered" /\ HasConfirmationLine(atts[2].body)
    /\ atts[2].inp.seg = "max"

\* C19: of two finished verify_response calls, those given the same body
\* reach the same decision whatever their candidates are, and those on the
\* same candidate that both accept return the same identity whatever their
\* bodies are.
C19_DecisionAndIdSeparate ==
    \A a, b \in 1..Len(atts) :
        (atts[a].pc = "Done" /\ atts[a].sent /\ atts[b].pc = "Done" /\ atts[b].sent) =>
            /\ atts[a].body = atts[b].body => IsOk(atts[a].result) = IsOk(atts[b].result)
            /\ (atts[a].ver.claimed_id = atts[b].ver.claimed_id
                /\ IsOk(atts[a].result) /\ IsOk(atts[b].result)) =>
                  atts[a].result.id = atts[b].result.id

C19_Witness ==
    /\ atts[1].pc = "Done" /\ atts[2].pc = "Done"
    /\ IsOk(atts[1].result) /\ IsOk(atts[2].result)
    /\ atts[1].body = atts[2].body
    /\ atts[1].result.id = ID17 /\ atts[2].result.id = U64MaxDigits

\* the lines of a body, and the body of a sequence of lines
LinesOf(body) == Split(body, LF)
Unlines(ls) == Join(ls, <<LF>>)

\* the orders in which n lines can be put
Orders(n) == {f \in [1..n -> 1..n] : \A i, j \in 1..n : f[i] = f[j] => i = j}

MaxPermuted == 4        \* lines that are put in every order (more: pairs change places)

\* the bodies got by reordering the lines ls
Reordered(ls) ==
    IF Len(ls) <= MaxPermuted
    THEN {Unlines([k \in 1..Len(ls) |-> ls[f[k]]]) : f \in Orders(Len(ls))}
    ELSE {Unlines([ls EXCEPT ![i] = ls[j], ![j] = ls[i]]) : i, j \in 1..Len(ls)}

Permuted(body) == Reordered(LinesOf(body))

\* lines without a colon: empty, blank, or a word
Fillers == {<<>>, <<" ">>, <<"x">>, <<"is_valid">>, <<"true">>}

\* the bodies got by adding one line without a colon to the lines ls
WithFiller(ls) ==
    {Unlines(SubSeq(ls, 1, k) \o <<fl>> \o SubSeq(ls, k + 1, Len(ls))) :
        k \in 0..Len(ls), fl \in Fillers}

Padded(body) == WithFiller(LinesOf(body))

\* the bodies got by dropping one line without a colon from the lines ls
WithoutFiller(ls) ==
    {Unlines(SubSeq(ls, 1, k - 1) \o SubSeq(ls, k + 1, Len(ls))) :
        k \in {j \in 1..Len(ls) : \A n \in 1..Len(ls[j]) : ls[j][n] # COLON}}

Stripped(body) == WithoutFiller(LinesOf(body))

\* no line of the body has the key is_valid
NoIsValidKey(body) ==
    \A i \in 1..Len(body) :
        (body[i] = "is_valid" /\ (i = 1 \/ body[i - 1] = LF)) =>
            (i = Len(body) \/ body[i + 1] # COLON)

\* C17: the decision of verify_response on a body is also its decision on
\* every reordering of the lines of the body and on the body with a line
\* without a colon (an empty or blank line, a word) added or dropped; a body
\* that is empty, is "is_valid:false", or has no is_valid key is rejected.
C17_OrderAndBlankLines ==
    \A k \in Finalized :
        /\ \A other \in Permuted(vers[k].body) \cup Padded(vers[k].body)
                        \cup Stripped(vers[k].body) :
              verify_response(vers[k].claimed_id, other) = vers[k].out
        /\ (\/ NoIsValidKey(vers[k].body)
            \/ vers[k].body \in {<<>>, <<"is_valid", ":", "false">>}) =>
              vers[k].out = Err("AuthenticationFailed")

C17_Witness ==
    \E k \in Finalized :
        /\ vers[k].body = <<"is_valid", ":", "true", LF, "ns", ":", "foo">>
        /\ IsOk(vers[k].out)
        /\ <<"ns", ":", "foo", LF, "is_valid", ":", "true">> \in Permuted(vers[k].body)

\* C18 (as claimed): for every callback and every response body the
\* crate-level path of the earlier revision returns what the Verifier path
\* (from_querystring, then verify_response on the same body) returns: the
\* same Ok(id) or the same error kind.
C18_RevisionsAgree ==
    (pc = "Done" /\ ~TransportFailed) =>
        /\ variant = "lib_sync" => result = make_verify_request(qs, wire)
        /\ variant = "lib_async" => result = make_verify_request_async(qs, wire)

=============================================================================
